---- MODULE Spec2Model ----
(***************************************************************************)
(* EasyGPT backend: the Response Normalizer (services/parsers.py) and the  *)
(* Provider Router's resolution (config.py).                               *)
(*                                                                         *)
(* Lexical model.  A text is a sequence of symbols; every symbol stands    *)
(* for a fixed run of characters.  The structural characters of JSON, the  *)
(* double quote (DQ), the blank and the triple backtick (FENCE) are       *)
(* symbols of their own, so str.find, str.rfind, str.strip, the regular expression of       *)
(* _extract_json_block and the JSON grammar act on symbols exactly as they *)
(* act on the characters the symbols stand for.  A word symbol ("cards",   *)
(* "A", ...) holds none of those characters.  Backslash escapes are not    *)
(* part of the alphabet.                                                   *)
(***************************************************************************)
EXTENDS Integers, Sequences, FiniteSets, TLC

WS == " "
Q == "DQ"
LB == "{"
RB == "}"
LS == "["
RS == "]"
COLON == ":"
COMMA == ","
FENCE == "FENCE"
JSONTAG == "json"
Digits == {"0", "7"}

\* F applied to the value of e, with e evaluated once
Bind(e, F(_)) == CHOOSE r \in {F(x) : x \in {e}} : TRUE

(***************************************************************************)
(* Python values as produced by json.loads: a record [t, v] whose v is     *)
(* always a sequence (symbols of a string or number, elements of a list,   *)
(* <<key, value>> pairs of a dict in insertion order).                     *)
(***************************************************************************)
NoneV == [t |-> "null", v |-> <<>>]
StrV(s) == [t |-> "str", v |-> s]
NumV(s) == [t |-> "num", v |-> s]
BoolV(b) == [t |-> "bool", v |-> IF b THEN <<"true">> ELSE <<"false">>]
ListV(xs) == [t |-> "list", v |-> xs]
DictV(ps) == [t |-> "dict", v |-> ps]

\* Python truth value of a value (what `x or y` and `if x` test).
Truthy(x) ==
  CASE x.t = "null" -> FALSE
    [] x.t = "bool" -> x.v = <<"true">>
    [] x.t = "num" -> x.v # <<"0">>
    [] OTHER -> x.v # <<>>

RECURSIVE DictIndex(_, _, _)
\* position of key k among the pairs ps at or after i, 0 when absent
DictIndex(ps, k, i) ==
  IF i > Len(ps) THEN 0
  ELSE IF ps[i][1] = k THEN i
  ELSE DictIndex(ps, k, i + 1)

\* `k in d`
DictHas(d, k) == DictIndex(d.v, k, 1) # 0

\* d.get(k): the value, None when the key is absent
DictGet(d, k) ==
  LET i == DictIndex(d.v, k, 1)
  IN IF i = 0 THEN NoneV ELSE d.v[i][2]

\* d[k] = x on the pair list: a repeated key keeps its place, takes the last value
DictSet(ps, k, x) ==
  LET i == DictIndex(ps, k, 1)
  IN IF i = 0 THEN Append(ps, <<k, x>>)
     ELSE [ps EXCEPT ![i] = <<k, x>>]

\* str.find from position i: the first position at or after i that holds symbol c,
\* 0 when there is none
Find(s, c, i) ==
  IF \E j \in i..Len(s) : s[j] = c
  THEN CHOOSE j \in i..Len(s) : s[j] = c /\ \A k \in i..(j - 1) : s[k] # c
  ELSE 0

\* str.rfind: the last position that holds symbol c, 0 when there is none
RFind(s, c) ==
  IF \E j \in 1..Len(s) : s[j] = c
  THEN CHOOSE j \in 1..Len(s) : s[j] = c /\ \A k \in (j + 1)..Len(s) : s[k] # c
  ELSE 0

\* first position at or after i that holds no symbol of the set cs (Len(s) + 1 when
\* every symbol from i on is in cs)
SkipOver(s, cs, i) ==
  CHOOSE j \in i..(Len(s) + 1) :
    /\ j > Len(s) \/ s[j] \notin cs
    /\ \A k \in i..(j - 1) : s[k] \in cs

\* first position at or after i that holds no whitespace
SkipWs(s, i) == IF i > Len(s) THEN i ELSE SkipOver(s, {WS}, i)

\* last position in lo..i that holds no whitespace, lo - 1 when all of it is whitespace
RSkipWs(s, i, lo) ==
  IF i < lo THEN i
  ELSE CHOOSE j \in (lo - 1)..i :
         /\ j < lo \/ s[j] # WS
         /\ \A k \in (j + 1)..i : s[k] = WS

\* position of the closing quote at or after i, 0 when the string is unterminated
StringEnd(s, i) == Find(s, Q, i)

\* first position at or after i that holds no digit
DigitsEnd(s, i) == IF i > Len(s) THEN i ELSE SkipOver(s, Digits, i)

ParseFail(i) == [ok |-> FALSE, val |-> NoneV, next |-> i]
ParseOk(x, i) == [ok |-> TRUE, val |-> x, next |-> i]

\* a JSON string starting at the quote s[i]
ParseString(s, i) ==
  LET e == StringEnd(s, i + 1)
  IN IF e = 0 THEN ParseFail(i)
     ELSE ParseOk(StrV(SubSeq(s, i + 1, e - 1)), e + 1)

\* a JSON number starting at the digit s[i]: 0, or a non-zero digit and more digits
ParseNumber(s, i) ==
  IF s[i] = "0" THEN ParseOk(NumV(<<"0">>), i + 1)
  ELSE LET e == DigitsEnd(s, i)
       IN ParseOk(NumV(SubSeq(s, i, e - 1)), e)

RECURSIVE ParseValue(_, _), ParseMembers(_, _, _), ParseElements(_, _, _)
\* json.scanner: one JSON value starting exactly at position i
ParseValue(s, i) ==
  IF i > Len(s) THEN ParseFail(i)
  ELSE CASE s[i] = Q -> ParseString(s, i)
         [] s[i] = LB ->
              LET j == SkipWs(s, i + 1)
              IN IF j <= Len(s) /\ s[j] = RB THEN ParseOk(DictV(<<>>), j + 1)
                 ELSE ParseMembers(s, j, <<>>)
         [] s[i] = LS ->
              LET j == SkipWs(s, i + 1)
              IN IF j <= Len(s) /\ s[j] = RS THEN ParseOk(ListV(<<>>), j + 1)
                 ELSE ParseElements(s, j, <<>>)
         [] s[i] = "null" -> ParseOk(NoneV, i + 1)
         [] s[i] = "true" -> ParseOk(BoolV(TRUE), i + 1)
         [] s[i] = "false" -> ParseOk(BoolV(FALSE), i + 1)
         [] s[i] \in Digits -> ParseNumber(s, i)
         [] OTHER -> ParseFail(i)

\* JSONObject: the members of an object, i at the first key; acc the pairs so far
ParseMembers(s, i, acc) ==
  IF i > Len(s) \/ s[i] # Q THEN ParseFail(i)
  ELSE LET k == ParseString(s, i)
       IN IF ~k.ok THEN ParseFail(i)
          ELSE LET c == SkipWs(s, k.next)
               IN IF c > Len(s) \/ s[c] # COLON THEN ParseFail(c)
                  ELSE LET x == ParseValue(s, SkipWs(s, c + 1))
                       IN IF ~x.ok THEN ParseFail(c)
                          ELSE LET acc2 == DictSet(acc, k.val.v, x.val)
                                   d == SkipWs(s, x.next)
                               IN IF d > Len(s) THEN ParseFail(d)
                                  ELSE IF s[d] = RB THEN ParseOk(DictV(acc2), d + 1)
                                  ELSE IF s[d] = COMMA
                                       THEN ParseMembers(s, SkipWs(s, d + 1), acc2)
                                  ELSE ParseFail(d)

\* JSONArray: the elements of an array, i at the first element; acc the values so far
ParseElements(s, i, acc) ==
  LET x == ParseValue(s, i)
  IN IF ~x.ok THEN ParseFail(i)
     ELSE LET acc2 == Append(acc, x.val)
              d == SkipWs(s, x.next)
          IN IF d > Len(s) THEN ParseFail(d)
             ELSE IF s[d] = RS THEN ParseOk(ListV(acc2), d + 1)
             ELSE IF s[d] = COMMA THEN ParseElements(s, SkipWs(s, d + 1), acc2)
             ELSE ParseFail(d)

\* json.loads: leading whitespace, one value, trailing whitespace, nothing else
JsonLoads(s) ==
  Bind(ParseValue(s, SkipWs(s, 1)), LAMBDA x :
    IF x.ok /\ SkipWs(s, x.next) > Len(s) THEN x ELSE ParseFail(1))

\* _safe_json_loads: the value, None when json.loads raises
safe_json_loads(candidate) ==
  Bind(candidate, LAMBDA s :
    Bind(JsonLoads(s), LAMBDA x : IF x.ok THEN x.val ELSE NoneV))

(***************************************************************************)
(* Text operations of parsers.py                                           *)
(***************************************************************************)
\* str.lstrip() in the place of str.strip()
LStrip(s) == SubSeq(s, SkipWs(s, 1), Len(s))

\* str.strip()
Strip(s) ==
  LET a == SkipWs(s, 1)
  IN SubSeq(s, a, RSkipWs(s, Len(s), a))

\* whether the opening fence and its json tag stand at position j
FenceOpenAt(s, j) == s[j] = FENCE /\ s[j + 1] = JSONTAG

\* first position where the opening fence and its json tag stand, 0 when nowhere
FindFenceOpen(s) ==
  IF \E j \in 1..(Len(s) - 1) : FenceOpenAt(s, j)
  THEN CHOOSE j \in 1..(Len(s) - 1) :
         FenceOpenAt(s, j) /\ \A k \in 1..(j - 1) : ~FenceOpenAt(s, k)
  ELSE 0

\* re.search of the fenced-block pattern: group 1 of the leftmost match, lazily
\* ended by the first later fence, with the whitespace around it left out
FenceSearch(s) ==
  Bind(FindFenceOpen(s), LAMBDA p :
    Bind(SkipWs(s, p + 2), LAMBDA a :
      Bind(IF p = 0 THEN 0 ELSE Find(s, FENCE, a), LAMBDA q :
        IF p = 0 \/ q = 0 THEN [found |-> FALSE, group |-> <<>>]
        ELSE [found |-> TRUE, group |-> SubSeq(s, a, RSkipWs(s, q - 1, a))])))

\* the fenced-block stage of _extract_json_block
fence_stage(text) ==
  Bind(FenceSearch(text), LAMBDA fence :
    IF fence.found THEN safe_json_loads(fence.group) ELSE NoneV)

\* the first stage of _extract_json_block: the substring from the first opening
\* brace to the last closing brace, parsed
brace_stage(text) ==
  Bind(<<Find(text, LB, 1), RFind(text, RB)>>, LAMBDA se :
    IF se[1] # 0 /\ se[2] # 0 /\ se[2] > se[1]
    THEN safe_json_loads(SubSeq(text, se[1], se[2]))
    ELSE NoneV)

\* the extraction without its fenced-block stage
extract_brace_only(text) == brace_stage(text)

\* _extract_json_block: the parsed value, None when nothing parses
extract_json_block(text) ==
  Bind(brace_stage(text), LAMBDA parsed :
    IF parsed.t # "null" THEN parsed ELSE fence_stage(text))

(***************************************************************************)
(* str() of a Python value, and json.dumps                                 *)
(***************************************************************************)
SQ == "'"

RECURSIVE Repr(_), ReprItems(_, _), ReprPairs(_, _)
\* repr(x): what str() shows of a value held inside a list or a dict
Repr(x) ==
  CASE x.t = "str" -> <<SQ>> \o x.v \o <<SQ>>
    [] x.t = "num" -> x.v
    [] x.t = "null" -> <<"None">>
    [] x.t = "bool" -> IF x.v = <<"true">> THEN <<"True">> ELSE <<"False">>
    [] x.t = "list" -> <<LS>> \o ReprItems(x.v, 1) \o <<RS>>
    [] OTHER -> <<LB>> \o ReprPairs(x.v, 1) \o <<RB>>

ReprItems(xs, i) ==
  IF i > Len(xs) THEN <<>>
  ELSE (IF i > 1 THEN <<COMMA, WS>> ELSE <<>>) \o Repr(xs[i]) \o ReprItems(xs, i + 1)

ReprPairs(ps, i) ==
  IF i > Len(ps) THEN <<>>
  ELSE (IF i > 1 THEN <<COMMA, WS>> ELSE <<>>)
       \o <<SQ>> \o ps[i][1] \o <<SQ, COLON, WS>> \o Repr(ps[i][2])
       \o ReprPairs(ps, i + 1)

RECURSIVE Dumps(_), DumpsItems(_, _), DumpsPairs(_, _)
\* json.dumps(x) with the default separators ", " and ": "
Dumps(x) ==
  CASE x.t = "str" -> <<Q>> \o x.v \o <<Q>>
    [] x.t = "num" -> x.v
    [] x.t = "null" -> <<"null">>
    [] x.t = "bool" -> x.v
    [] x.t = "list" -> <<LS>> \o DumpsItems(x.v, 1) \o <<RS>>
    [] OTHER -> <<LB>> \o DumpsPairs(x.v, 1) \o <<RB>>

DumpsItems(xs, i) ==
  IF i > Len(xs) THEN <<>>
  ELSE (IF i > 1 THEN <<COMMA, WS>> ELSE <<>>) \o Dumps(xs[i]) \o DumpsItems(xs, i + 1)

DumpsPairs(ps, i) ==
  IF i > Len(ps) THEN <<>>
  ELSE (IF i > 1 THEN <<COMMA, WS>> ELSE <<>>)
       \o <<Q>> \o ps[i][1] \o <<Q, COLON, WS>> \o Dumps(ps[i][2])
       \o DumpsPairs(ps, i + 1)

\* the string form taken as the JSON form of the value
StrAsJson(x) == IF x.t = "str" THEN x.v ELSE Dumps(x)

\* str(x): a string is itself, anything else is shown as repr shows it
Str(x) == IF x.t = "str" THEN x.v ELSE Repr(x)

(***************************************************************************)
(* Cards.  uuid.uuid4() is a source of fresh identifiers: the n-th call of *)
(* the process returns Uuid(n), and no text of a model holds that symbol.  *)
(***************************************************************************)
K_ID == <<"id">>
K_TITLE == <<"title">>
K_CONTENT == <<"content">>
K_KIND == <<"kind">>
K_CARDS == <<"cards">>
K_CARD == <<"card">>

IntSym == <<"1", "2", "3", "4", "5", "6", "7", "8", "9">>
Uuid(n) == <<"uuid", IntSym[n]>>

\* schemas.Card
Card(id, title, content, kind) ==
  [id |-> id, title |-> title, content |-> content, kind |-> kind]

\* `str(item.get(k, default))`: the default only for a missing key
GetOrIfPresent(item, k, default) ==
  IF DictHas(item, k) THEN Str(DictGet(item, k)) ELSE default

\* `str(item.get(k) or default)`
GetOr(item, k, default) ==
  LET x == DictGet(item, k)
  IN IF Truthy(x) THEN Str(x) ELSE default

\* whether `item.get("id") or uuid.uuid4()` calls uuid4
NeedsUuid(item) == ~Truthy(DictGet(item, K_ID))

\* the title a card of parse_cards_from_text gets when its element gives none
DefaultTitle(idx) == <<"Card", WS, IntSym[idx]>>

\* the Card(...) call of parse_cards_from_text for element idx (1-based); n uuids were drawn
CoerceCard(item, idx, n) ==
  Card(GetOr(item, K_ID, Uuid(n + 1)),
       GetOr(item, K_TITLE, DefaultTitle(idx)),
       GetOr(item, K_CONTENT, <<>>),
       GetOr(item, K_KIND, <<"text">>))

\* the Card(...) call of parse_followup_from_text
CoerceFollowup(item, n) ==
  Card(GetOr(item, K_ID, Uuid(n + 1)),
       GetOr(item, K_TITLE, <<"Clarification">>),
       GetOr(item, K_CONTENT, <<>>),
       GetOr(item, K_KIND, <<"text">>))

RECURSIVE CoerceLoop(_, _, _, _)
\* the for loop of parse_cards_from_text over the elements from idx on: an element
\* that is no dict has no .get, and the AttributeError leaves the function
CoerceLoop(items, idx, cards, n) ==
  IF idx > Len(items) THEN [raised |-> FALSE, cards |-> cards, uuids |-> n]
  ELSE IF items[idx].t # "dict" THEN [raised |-> TRUE, cards |-> <<>>, uuids |-> n]
  ELSE CoerceLoop(items, idx + 1, Append(cards, CoerceCard(items[idx], idx, n)),
                  IF NeedsUuid(items[idx]) THEN n + 1 ELSE n)

\* `enumerate(parsed.get("cards", []) or [])`: what the loop iterates over.  A falsy
\* value is replaced by []; a list gives its elements; a non-empty string or dict
\* gives its characters or keys, which are strings; a number or True is not iterable.
CardsIterable(parsed) ==
  LET x == DictGet(parsed, K_CARDS)
  IN IF ~Truthy(x) THEN [iterable |-> TRUE, items |-> <<>>]
     ELSE IF x.t = "list" THEN [iterable |-> TRUE, items |-> x.v]
     ELSE IF x.t = "str"
     THEN [iterable |-> TRUE, items |-> [i \in 1..Len(x.v) |-> StrV(<<x.v[i]>>)]]
     ELSE IF x.t = "dict"
     THEN [iterable |-> TRUE, items |-> [i \in 1..Len(x.v) |-> StrV(x.v[i][1])]]
     ELSE [iterable |-> FALSE, items |-> <<>>]

\* the fallback Card of parse_cards_from_text
FallbackCard(text, n) == Card(Uuid(n + 1), <<"Response">>, Strip(text), <<"text">>)

\* the fallback Card of parse_followup_from_text
FallbackFollowup(text, n) == Card(Uuid(n + 1), <<"Clarification">>, Strip(text), <<"text">>)

\* `if parsed and isinstance(parsed, dict) and key in parsed`
UsableDict(parsed, key) == Truthy(parsed) /\ parsed.t = "dict" /\ DictHas(parsed, key)

\* the loop's list returned without the `if cards:` test
CardsAcceptedAlways(cards) == TRUE

\* `if cards:` after the loop: an empty list falls through to the fallback
CardsAccepted(cards) == cards # <<>>

\* parse_cards_from_text with n uuids drawn before: the cards (or the raise), the
\* meta dict (always empty) and the number of uuids drawn after
parse_cards_from_text(text, n) ==
  Bind(extract_json_block(text), LAMBDA parsed :
    IF ~UsableDict(parsed, K_CARDS)
    THEN [raised |-> FALSE, cards |-> <<FallbackCard(text, n)>>, meta |-> <<>>,
          uuids |-> n + 1]
    ELSE Bind(CardsIterable(parsed), LAMBDA it :
      IF ~it.iterable
      THEN [raised |-> TRUE, cards |-> <<>>, meta |-> <<>>, uuids |-> n]
      ELSE Bind(CoerceLoop(it.items, 1, <<>>, n), LAMBDA loop :
        IF loop.raised
        THEN [raised |-> TRUE, cards |-> <<>>, meta |-> <<>>, uuids |-> loop.uuids]
        ELSE IF CardsAccepted(loop.cards)
        THEN [raised |-> FALSE, cards |-> loop.cards, meta |-> <<>>,
              uuids |-> loop.uuids]
        ELSE [raised |-> FALSE, cards |-> <<FallbackCard(text, loop.uuids)>>,
              meta |-> <<>>, uuids |-> loop.uuids + 1])))

\* parse_followup_from_text with n uuids drawn before; the one card is held as a
\* one-element sequence
parse_followup_from_text(text, n) ==
  Bind(extract_json_block(text), LAMBDA parsed :
    IF ~UsableDict(parsed, K_CARD)
    THEN [raised |-> FALSE, cards |-> <<FallbackFollowup(text, n)>>, meta |-> <<>>,
          uuids |-> n + 1]
    ELSE Bind(DictGet(parsed, K_CARD), LAMBDA item :
      IF item.t # "dict"
      THEN [raised |-> TRUE, cards |-> <<>>, meta |-> <<>>, uuids |-> n]
      ELSE [raised |-> FALSE, cards |-> <<CoerceFollowup(item, n)>>, meta |-> <<>>,
            uuids |-> IF NeedsUuid(item) THEN n + 1 ELSE n]))

(***************************************************************************)
(* Provider Router: config.py                                              *)
(***************************************************************************)
\* Python's None where a string is expected (an absent provider, model or default)
NONE == "<None>"

\* str.lower() on the names of the model
Lower(name) ==
  CASE name = "OpenAI" -> "openai"
    [] name = "OPENAI" -> "openai"
    [] name = "Mock" -> "mock"
    [] OTHER -> name

\* truth value of an Optional[str]: None and "" are falsy
TruthyStr(x) == x # NONE /\ x # ""

\* the model list config.yaml gives a provider: a list of names, one name, or
\* anything else (null, a number, a mapping)
ModelList(raw) ==
  IF raw.kind = "list" THEN raw.models
  ELSE IF raw.kind = "str" THEN raw.models
  ELSE <<>>

RECURSIVE NormalizeProviders(_, _, _)
\* the loop of _build_models_config over providers.items(), from pair i on
NormalizeProviders(pairs, i, normalized) ==
  IF i > Len(pairs) THEN normalized
  ELSE NormalizeProviders(pairs, i + 1,
         DictSet(normalized, Lower(pairs[i][1]), ModelList(pairs[i][2])))

\* _build_models_config: ModelsConfig(default_provider, providers)
build_models_config(raw) ==
  LET default_provider == Lower(IF raw.default_provider = NONE THEN "mock"
                                ELSE raw.default_provider)
      normalized == NormalizeProviders(raw.providers, 1, <<>>)
      withMock == IF DictIndex(normalized, "mock", 1) = 0
                  THEN Append(normalized, <<"mock", <<"mock-model">> >>)
                  ELSE normalized
  IN [default_provider |-> IF DictIndex(withMock, default_provider, 1) = 0
                           THEN "mock" ELSE default_provider,
      providers |-> withMock]

\* settings.models.providers.get(name): found, and the list
ProviderModels(cfg, name) ==
  LET i == DictIndex(cfg.providers, name, 1)
  IN IF i = 0 THEN [found |-> FALSE, models |-> <<>>]
     ELSE [found |-> TRUE, models |-> cfg.providers[i][2]]

\* the configured default left out: an absent provider goes to mock
ChosenProviderNoDefault(cfg, provider) ==
  Lower(IF TruthyStr(provider) THEN provider ELSE "mock")

\* `(provider or settings.models.default_provider).lower()`
ChosenProvider(cfg, provider) ==
  Lower(IF TruthyStr(provider) THEN provider ELSE cfg.default_provider)

\* the override accepted only when it is one of the configured model names
ModelGivenIfKnown(model_override) ==
  TruthyStr(model_override) /\ model_override \in {"m1", "m2", "m3", "mock-model"}

\* `if model_override:`
ModelGiven(model_override) == TruthyStr(model_override)

\* the resolution with line 99 left out: the chosen provider kept when it has no models
resolve_keeping_provider(cfg, provider, model_override) ==
  LET first == ChosenProvider(cfg, provider)
      firstModels == ProviderModels(cfg, first).models
      mockModels == IF ProviderModels(cfg, "mock").found
                    THEN ProviderModels(cfg, "mock").models
                    ELSE <<"mock-model">>
      provider_models == IF firstModels = <<>> THEN mockModels ELSE firstModels
  IN IF ModelGiven(model_override) THEN <<first, model_override>>
     ELSE <<first, IF provider_models # <<>> THEN provider_models[1] ELSE "mock-model">>

\* resolve_provider_and_model(provider, model_override) under the settings cfg
resolve_provider_and_model(cfg, provider, model_override) ==
  LET first == ChosenProvider(cfg, provider)
      firstModels == ProviderModels(cfg, first).models
      toMock == firstModels = <<>>
      chosen_provider == IF toMock THEN "mock" ELSE first
      mockModels == IF ProviderModels(cfg, "mock").found
                    THEN ProviderModels(cfg, "mock").models
                    ELSE <<"mock-model">>
      provider_models == IF toMock THEN mockModels ELSE firstModels
  IN IF ModelGiven(model_override) THEN <<chosen_provider, model_override>>
     ELSE <<chosen_provider,
            IF provider_models # <<>> THEN provider_models[1] ELSE "mock-model">>

(***************************************************************************)
(* Inputs.  The raw texts a provider may return: JSON documents as         *)
(* json.dumps writes them, alone, cut short, or inside a json fence, with  *)
(* prose around them; and every short sequence of symbols.                 *)
(***************************************************************************)
MaxCards == 2
MaxRawLen == 2
MaxUuid == 2
MaxProviders == 2

SeqsUpTo(S, n) == UNION {[1..k -> S] : k \in 0..n}

S_A == StrV(<<"A">>)
S_B == StrV(<<"B">>)

\* elements of a `cards` array, and values of `card`
E_Empty == DictV(<<>>)
E_TitleContent == DictV(<< <<K_TITLE, S_A>>, <<K_CONTENT, S_B>> >>)
E_Full == DictV(<< <<K_ID, S_A>>, <<K_TITLE, S_A>>, <<K_CONTENT, S_B>>, <<K_KIND, S_B>> >>)
E_Blank == DictV(<< <<K_TITLE, StrV(<<>>)>>, <<K_CONTENT, StrV(<<FENCE, "A", FENCE>>)>> >>)
E_NonStr == DictV(<< <<K_ID, NumV(<<"7">>)>>, <<K_TITLE, ListV(<<S_A>>)>>,
                     <<K_CONTENT, DictV(<< <<<<"x">>, BoolV(TRUE)>> >>)>>,
                     <<K_KIND, BoolV(TRUE)>>, <<<<"x">>, S_A>> >>)
E_Falsy == DictV(<< <<K_ID, NumV(<<"0">>)>>, <<K_TITLE, BoolV(FALSE)>>,
                    <<K_CONTENT, ListV(<<>>)>>, <<K_KIND, NoneV>> >>)
ObjectElements == {E_Empty, E_TitleContent, E_Full, E_Blank, E_NonStr, E_Falsy}
OtherElements == {S_A, NumV(<<"7">>)}
Elements == ObjectElements \cup OtherElements

\* values of `cards` that are no list
NonListCards == {NoneV, S_A, StrV(<<>>), NumV(<<"7">>), NumV(<<"0">>), BoolV(TRUE), E_TitleContent}

\* values of `card` that are no object
NonObjectCard == {NoneV, S_A, NumV(<<"0">>), ListV(<<E_TitleContent>>)}

CardsDoc(x) == DictV(<< <<K_CARDS, x>> >>)
CardDoc(x) == DictV(<< <<K_CARD, x>> >>)

Docs ==
  {CardsDoc(ListV(xs)) : xs \in SeqsUpTo(Elements, MaxCards)}
  \cup {CardsDoc(x) : x \in NonListCards}
  \cup {CardDoc(x) : x \in ObjectElements \cup NonObjectCard}
  \cup {DictV(<<>>), DictV(<< <<<<"x">>, S_A>> >>),
        DictV(<< <<<<"x">>, S_A>>, <<K_CARDS, ListV(<<E_TitleContent>>)>>,
                 <<K_CARD, E_Full>> >>),
        DictV(<< <<K_CARDS, ListV(<<>>)>>,
                 <<<<"x">>, StrV(<<FENCE, JSONTAG, WS, LS, "7", RS, WS, FENCE>>)>> >>),
        ListV(<<CardsDoc(ListV(<<E_Full>>))>>), ListV(<<NumV(<<"7">>)>>), S_A}

\* a document inside a json fence
Fenced(body) == <<FENCE, JSONTAG, WS>> \o body \o <<WS, FENCE>>

\* a document cut short: its last symbol is missing
CutShort(body) == SubSeq(body, 1, Len(body) - 1)

Wraps == {"plain", "fenced", "cut"}

\* the document d as the provider writes it
Body(wrap, d) ==
  CASE wrap = "plain" -> Dumps(d)
    [] wrap = "fenced" -> Fenced(Dumps(d))
    [] wrap = "cut" -> CutShort(Dumps(d))
    [] OTHER -> <<>>

\* prose before and after a body
Prose == {<< <<>>, <<>> >>,
          << <<"A", WS>>, <<WS, "B">> >>,
          << <<WS>>, <<WS, WS>> >>,
          << <<LB, WS>>, <<>> >>,
          << <<>>, <<WS, RB>> >>,
          << <<"A", WS, LB, "B", RB, WS>>, <<WS, LB, RB>> >>,
          << <<FENCE, WS>>, <<FENCE, JSONTAG, WS, LB, RB, FENCE>> >>}

RawAlphabet == {LB, RB, LS, RS, Q, WS, COLON, "A", "7", "null", FENCE, JSONTAG}

\* where a raw text comes from: a document, how it is wrapped and the prose around
\* it; or (wrap "raw") the bare symbols held as the prose before an empty body
Sources ==
  {[wrap |-> w, doc |-> d, prose |-> pr] : w \in Wraps, d \in Docs, pr \in Prose}
  \cup {[wrap |-> "raw", doc |-> NoneV, prose |-> <<r, <<>> >>] :
          r \in SeqsUpTo(RawAlphabet, MaxRawLen)}

TextOf(src) == src.prose[1] \o Body(src.wrap, src.doc) \o src.prose[2]

\* config.yaml: the models section
RawDefaults == {NONE, "openai", "OpenAI", "gemini", "mock"}
RawKeys == {"openai", "OPENAI", "gemini", "mock"}
RawModels == {[kind |-> "list", models |-> <<"m1", "m2">>],
              [kind |-> "list", models |-> <<>>],
              [kind |-> "str", models |-> <<"m3">>],
              [kind |-> "other", models |-> <<>>]}

\* the providers mapping: pairs in file order, no key twice
RawProviders ==
  {ps \in SeqsUpTo(RawKeys \X RawModels, MaxProviders) :
     \A i, j \in 1..Len(ps) : i # j => ps[i][1] # ps[j][1]}

RawConfigs == [default_provider : RawDefaults, providers : RawProviders]

\* the arguments of a resolution
ReqProviders == {NONE, "", "openai", "OPENAI", "mock", "deepseek"}
ReqModels == {NONE, "", "gpt-custom", "m2"}

(***************************************************************************)
(* State                                                                   *)
(***************************************************************************)
VARIABLES
  source,      \* history: how the raw text was written (document, wrap, prose)
  text,        \* the raw text the provider returned
  op,          \* the parse operation applied last: "none", "cards", "followup"
  result,      \* what it returned: [raised, cards, meta, uuids]
  uuidCount,   \* number of uuid4() calls of the process so far
  rawCfg,      \* the models section of config.yaml
  settings,    \* settings.models, built once at import
  request,     \* the arguments of the last resolution: <<provider, model_override>>
  resolved,    \* what it returned: <<provider, model>>
  keys,        \* the providers whose API key is set in the environment
  logEnabled,  \* settings.logging.enabled
  logFile,     \* the log file: the chunks written to it, in order
  pc,          \* per request: where its handler stands
  req,         \* per request: endpoint, body and user_id
  calls,       \* per request: invocations of a provider collaborator
  llm,         \* per request: what LLMClient.generate returned
  writing,     \* per request: a log entry is half written
  exc,         \* per request: the exception its handler caught, as a message
  response,    \* per request: the HTTP response
  card_nav,    \* st.session_state.card_nav: [index, view_all]
  messages,    \* st.session_state.messages: the prompt and the assistant's message
  shown,       \* the widgets of the last script run: controls and their disabled flags
  info         \* what the follow-up section of the last script run displayed

vars == <<source, text, op, result, uuidCount, rawCfg, settings, request, resolved,
          keys, logEnabled, logFile, pc, req, calls, llm, writing, exc, response,
          card_nav, messages, shown, info>>
parserVars == <<source, text, op, result, uuidCount>>
routerVars == <<rawCfg, settings, request, resolved>>
serveVars == <<keys, logEnabled, logFile, pc, req, calls, llm, writing, exc, response>>
frontVars == <<card_nav, messages, shown, info>>

NoResult == [raised |-> FALSE, cards |-> <<>>, meta |-> <<>>, uuids |-> 0]
DefaultRaw == [default_provider |-> NONE, providers |-> <<>>]

NoSource == [wrap |-> "raw", doc |-> NoneV, prose |-> << <<>>, <<>> >>]

InitParserIdle ==
  /\ source = NoSource
  /\ text = <<>>
  /\ op = "none"
  /\ result = NoResult
  /\ uuidCount = 0

InitRouterIdle ==
  /\ rawCfg = DefaultRaw
  /\ settings = build_models_config(DefaultRaw)
  /\ request = <<NONE, NONE>>
  /\ resolved = <<NONE, NONE>>

(***************************************************************************)
(* LLM client, logger and request handlers: llm_client.py, logger.py,      *)
(* app.py                                                                  *)
(***************************************************************************)
MaxRequests == 2
Requests == 1..MaxRequests

\* the `content` of LLMClient._mock
mock_content ==
  DictV(<< <<K_CARDS, ListV(<<
    DictV(<< <<K_ID, StrV(<<"overview">>)>>,
             <<K_TITLE, StrV(<<"Overview">>)>>,
             <<K_CONTENT, StrV(<<"This", WS, "is", WS, "a", WS, "mock", WS, "response", WS,
                                 "demonstrating", WS, "the", WS, "card", WS, "layout.">>)>>,
             <<K_KIND, StrV(<<"text">>)>> >>),
    DictV(<< <<K_ID, StrV(<<"step-1">>)>>,
             <<K_TITLE, StrV(<<"Step", WS, "1">>)>>,
             <<K_CONTENT, StrV(<<"Explain", WS, "step", WS, "one", WS, "clearly", WS, "and", WS,
                                 "concisely.">>)>>,
             <<K_KIND, StrV(<<"text">>)>> >>) >>)>> >>)

\* a mock that answers with a `card` object
mock_card_text ==
  Dumps(DictV(<< <<K_CARD, DictV(<< <<K_ID, StrV(<<"overview">>)>>,
                                    <<K_TITLE, StrV(<<"Overview">>)>>,
                                    <<K_CONTENT, StrV(<<"mock">>)>> >>)>> >>))

\* the text LLMClient._mock returns: json.dumps(content)
mock_text == Dumps(mock_content)

\* the providers with a collaborator of their own; every other name goes to _mock
RealProviders == {"openai", "gemini", "deepseek"}

\* a credential asked of openai only
CredentialNeededForOpenAI(provider_name) == provider_name = "openai"

\* the branches of LLMClient.generate that test an API key
CredentialNeeded(provider_name) == provider_name \in RealProviders

\* the RuntimeError raised for a missing key
MissingKeyMessage(provider_name) ==
  CASE provider_name = "openai" ->
         "OPENAI_API_KEY is not set. Please add it to your .env or switch provider to 'mock'."
    [] provider_name = "gemini" ->
         "GEMINI_API_KEY is not set. Please add it to your .env or switch provider to 'mock'."
    [] OTHER ->
         "DEEPSEEK_API_KEY is not set. Please add it to your .env or switch provider to 'mock'."

\* str(exc) of a failed provider call, of a raise inside a parser, of a log write
ProviderErrorMessage == "Connection error."
ParseErrorMessage == "object has no attribute 'get'"
LogErrorMessage == "Permission denied: logs/easygpt.jsonl"

\* what a provider collaborator may do: answer with a text, or fail
ProviderOutcomes ==
  {[ok |-> TRUE, text |-> t] :
     t \in {Dumps(DictV(<< <<K_CARDS, ListV(<<E_TitleContent>>)>>, <<K_CARD, E_Full>> >>)),
            Dumps(DictV(<< <<K_CARDS, ListV(<<S_A>>)>>, <<K_CARD, NoneV>> >>))}}
  \cup {[ok |-> FALSE, text |-> <<>>]}

NoUsage == [provider |-> NONE, model |-> NONE, input_tokens |-> NONE,
            output_tokens |-> NONE]
NoLlm == [resolved |-> <<NONE, NONE>>, returned |-> FALSE, text |-> <<>>,
          usage |-> NoUsage]
NoRequest == [endpoint |-> NONE, provider |-> NONE, model |-> NONE, fault |-> NONE,
              user_id |-> <<>>]
NoResponse == [status |-> 0, error_type |-> NONE, message |-> NONE, cards |-> <<>>,
               usage |-> NoUsage, raw_text |-> <<>>]

\* the failed provider call made once more
RetryAfterProviderError == "invoke"

\* where a failed provider call leaves the handler: its except clause
AfterProviderError == "log_error"

\* a log write whose failure reaches the caller
LogRaisesOnFailure(outcome) == outcome = "fails"

\* `except Exception: pass` of _write_log: no failure of the write reaches the caller
LogRaises(outcome) == FALSE

\* what the file system may do to a log write
WriteOutcomes == {"ok", "fails"}

\* JSONLogger._write_log: whether the entry is written, whether the call raises
write_log(enabled, outcome) ==
  IF ~enabled THEN [writes |-> FALSE, raised |-> FALSE]
  ELSE IF outcome = "ok" THEN [writes |-> TRUE, raised |-> FALSE]
  ELSE [writes |-> FALSE, raised |-> LogRaises(outcome)]

\* the handler positions that write a log entry, and the event each writes
LogPoints == {"log_request", "log_response", "log_error"}
EventAt(p) ==
  CASE p = "log_request" -> "request"
    [] p = "log_response" -> "response"
    [] OTHER -> "error"

\* one part of the line of an entry: the first bytes, or the rest with the newline
Chunk(r, part) ==
  [user_id |-> req[r].user_id, event |-> EventAt(pc[r]), part |-> part]

\* the position after a log call that returned
AfterLog(p) ==
  CASE p = "log_request" -> "generate"
    [] p = "log_response" -> "parse"
    [] OTHER -> "raise_http"

\* error_type of the HTTPException of an endpoint
ErrorType(endpoint) ==
  IF endpoint = "generate" THEN "generation_error" ELSE "followup_error"

\* the event loop runs a handler at any time
EventLoopIdleAlways == TRUE

\* the handlers are coroutines without an await: the event loop takes up a request
\* only when no handler is in progress and the earlier requests are answered
EventLoopIdle == \A q \in Requests : pc[q] \in {"idle", "closed"}

\* the requests are numbered in the order the server takes them up
NextToArrive(r) == pc[r] = "idle" /\ \A q \in 1..(r - 1) : pc[q] # "idle"

\* the request bodies: provider and model, or a field that violates its constraint
Endpoints == {"generate", "followup"}
BodyFaults == {"temperature", "max_tokens", "provider"}
Bodies ==
  {[provider |-> p, model |-> NONE, fault |-> NONE] :
     p \in {NONE, "gemini", "deepseek", "mock"}}
  \cup {[provider |-> NONE, model |-> "gpt-custom", fault |-> NONE]}
  \cup {[provider |-> NONE, model |-> NONE, fault |-> f] : f \in BodyFaults}

\* config.yaml of a deployment with three providers, and the environments
ServeRaw ==
  [default_provider |-> "openai",
   providers |-> << <<"openai", [kind |-> "list", models |-> <<"m1", "m2">>]>>,
                    <<"gemini", [kind |-> "str", models |-> <<"m3">>]>>,
                    <<"deepseek", [kind |-> "str", models |-> <<"m3">>]>> >>]
KeySets == {{}, {"openai", "gemini", "deepseek"}}

InitServeIdle ==
  /\ keys = {}
  /\ logEnabled = FALSE
  /\ logFile = <<>>
  /\ pc = [r \in Requests |-> "idle"]
  /\ req = [r \in Requests |-> NoRequest]
  /\ calls = [r \in Requests |-> 0]
  /\ llm = [r \in Requests |-> NoLlm]
  /\ writing = [r \in Requests |-> FALSE]
  /\ exc = [r \in Requests |-> NONE]
  /\ response = [r \in Requests |-> NoResponse]

(***************************************************************************)
(* The chat frontend.  Streamlit runs the script once per interaction: the *)
(* on_click callback of the clicked button first, then main() from the top. *)
(* A button can be clicked as the last run rendered it.                     *)
(***************************************************************************)
MaxShown == 4

DEFAULT_EXAMPLE_QUERY == "How do I make a grilled cheese sandwich?"
PROGRAMMING_EXAMPLE_QUERY ==
  "I have windows 11 and i want to install python on my machine. How do i do that?"

\* the prompt typed into st.chat_input, or the query of an example button
Prompts == {"How do I...?", DEFAULT_EXAMPLE_QUERY, PROGRAMMING_EXAMPLE_QUERY}

\* the body of a 200 answer of /v1/generate: the backend returns at least one card
ResponseData(n) ==
  [cards |-> [i \in 1..n |->
                Card(<<IntSym[i]>>, <<"Step", WS, IntSym[i]>>, <<"B">>, <<"text">>)]]

\* what post_to_backend gives process_prompt: response data, or an APIError
GenerateOutcomes ==
  {[error |-> FALSE, content |-> ResponseData(n)] : n \in 1..MaxShown}
  \cup {[error |-> TRUE, content |-> [cards |-> <<>>]]}

\* what the follow-up section displays after "Ask Follow-up"
FollowupOutcomes == {"warning", "answer", "error"}

\* {"index": 0, "view_all": False}
reset_card_nav == [index |-> 0, view_all |-> FALSE]

NoWidgets ==
  [controls |-> FALSE, prev_disabled |-> TRUE, next_disabled |-> TRUE,
   hide_all |-> FALSE, followup |-> FALSE]

Min(a, b) == IF a < b THEN a ELSE b
Max(a, b) == IF a > b THEN a ELSE b

\* a Next button that stays enabled on the last card
next_disabled_after_last(index, total_cards) == index >= total_cards

\* disabled= of the Next button
next_disabled(index, total_cards) == index >= total_cards - 1

\* disabled= of the Previous button
prev_disabled(index) == index <= 0

\* render_response_controls: the three buttons, none for a single card
render_response_controls(nav, cards, followup) ==
  IF Len(cards) <= 1
  THEN [NoWidgets EXCEPT !.followup = followup]
  ELSE [controls |-> TRUE,
        prev_disabled |-> prev_disabled(nav.index),
        next_disabled |-> next_disabled(nav.index, Len(cards)),
        hide_all |-> nav.view_all,
        followup |-> followup]

\* render_assistant_message: the index is clamped when one card is shown
render_assistant_message(nav, resp) ==
  IF Len(resp.cards) = 0
  THEN [nav |-> nav, shown |-> NoWidgets]
  ELSE IF nav.view_all
  THEN [nav |-> nav, shown |-> render_response_controls(nav, resp.cards, FALSE)]
  ELSE Bind([nav EXCEPT !.index = Max(0, Min(nav.index, Len(resp.cards) - 1))],
            LAMBDA clamped :
              [nav |-> clamped,
               shown |-> render_response_controls(clamped, resp.cards, TRUE)])

\* main() from the session state: the chat history display
main(nav, msgs) ==
  IF Len(msgs) < 2 \/ msgs[2].error
  THEN [nav |-> nav, shown |-> NoWidgets]
  ELSE render_assistant_message(nav, msgs[2].content)

InitFrontIdle ==
  /\ card_nav = reset_card_nav
  /\ messages = <<>>
  /\ shown = NoWidgets
  /\ info = "none"

(***************************************************************************)
(* The Response Normalizer applied to a text                               *)
(***************************************************************************)
InitParse ==
  /\ source \in Sources
  /\ text = TextOf(source)
  /\ op = "none"
  /\ result = NoResult
  /\ uuidCount = 0
  /\ InitRouterIdle
  /\ InitServeIdle
  /\ InitFrontIdle

ParseCards ==
  \E r \in {parse_cards_from_text(text, uuidCount)} :
     /\ r.uuids <= MaxUuid
     /\ op' = "cards"
     /\ result' = r
     /\ uuidCount' = r.uuids
     /\ UNCHANGED <<source, text, routerVars, serveVars, frontVars>>

ParseFollowup ==
  \E r \in {parse_followup_from_text(text, uuidCount)} :
     /\ r.uuids <= MaxUuid
     /\ op' = "followup"
     /\ result' = r
     /\ uuidCount' = r.uuids
     /\ UNCHANGED <<source, text, routerVars, serveVars, frontVars>>

NextParse == ParseCards \/ ParseFollowup

SpecParse == InitParse /\ [][NextParse]_vars

(***************************************************************************)
(* The Provider Router's resolution under a configuration                  *)
(***************************************************************************)
InitResolve ==
  /\ rawCfg \in RawConfigs
  /\ settings = build_models_config(rawCfg)
  /\ request = <<NONE, NONE>>
  /\ resolved = <<NONE, NONE>>
  /\ InitParserIdle
  /\ InitServeIdle
  /\ InitFrontIdle

Resolve(provider, model_override) ==
  /\ request' = <<provider, model_override>>
  /\ resolved' = resolve_provider_and_model(settings, provider, model_override)
  /\ UNCHANGED <<rawCfg, settings, parserVars, serveVars, frontVars>>

NextResolve == \E p \in ReqProviders, m \in ReqModels : Resolve(p, m)

SpecResolve == InitResolve /\ [][NextResolve]_vars

(***************************************************************************)
(* The backend serving requests                                            *)
(***************************************************************************)
InitServe ==
  /\ rawCfg \in {ServeRaw, DefaultRaw}
  /\ settings = build_models_config(rawCfg)
  /\ request = <<NONE, NONE>>
  /\ resolved = <<NONE, NONE>>
  /\ InitParserIdle
  /\ keys \in KeySets
  /\ logEnabled \in BOOLEAN
  /\ logFile = <<>>
  /\ pc = [r \in Requests |-> "idle"]
  /\ req = [r \in Requests |-> NoRequest]
  /\ calls = [r \in Requests |-> 0]
  /\ llm = [r \in Requests |-> NoLlm]
  /\ writing = [r \in Requests |-> FALSE]
  /\ exc = [r \in Requests |-> NONE]
  /\ response = [r \in Requests |-> NoResponse]
  /\ InitFrontIdle

idleVars == <<source, text, op, result, routerVars, keys, logEnabled, frontVars>>

\* FastAPI validates the body against GenerateRequest / FollowupRequest before the
\* handler is called: a violated constraint is answered with 422 by the framework
RejectBody(r, endpoint, body) ==
  /\ NextToArrive(r)
  /\ EventLoopIdle
  /\ body.fault # NONE
  /\ req' = [req EXCEPT ![r] = [endpoint |-> endpoint, provider |-> body.provider,
                                model |-> body.model, fault |-> body.fault,
                                user_id |-> <<>>]]
  /\ response' = [response EXCEPT ![r] = [NoResponse EXCEPT !.status = 422,
                                                           !.message = body.fault]]
  /\ pc' = [pc EXCEPT ![r] = "done"]
  /\ UNCHANGED <<idleVars, uuidCount, logFile, calls, llm, writing, exc>>

\* generate / followup entered: user_id = generate_user_id()
StartHandler(r, endpoint, body) ==
  /\ NextToArrive(r)
  /\ EventLoopIdle
  /\ body.fault = NONE
  /\ req' = [req EXCEPT ![r] = [endpoint |-> endpoint, provider |-> body.provider,
                                model |-> body.model, fault |-> NONE,
                                user_id |-> Uuid(uuidCount + 1)]]
  /\ uuidCount' = uuidCount + 1
  /\ pc' = [pc EXCEPT ![r] = "log_request"]
  /\ UNCHANGED <<idleVars, logFile, calls, llm, writing, exc, response>>

\* a log call that wrote nothing has returned or raised: inside the try block the
\* raise goes to the except clause, inside the except clause it leaves the handler
LogReturns(r, raised) ==
  IF ~raised
  THEN /\ pc' = [pc EXCEPT ![r] = AfterLog(pc[r])]
       /\ UNCHANGED <<exc, response>>
  ELSE IF pc[r] # "log_error"
  THEN /\ pc' = [pc EXCEPT ![r] = "log_error"]
       /\ exc' = [exc EXCEPT ![r] = LogErrorMessage]
       /\ UNCHANGED response
  ELSE /\ pc' = [pc EXCEPT ![r] = "done"]
       /\ response' = [response EXCEPT ![r] = [NoResponse EXCEPT !.status = 500]]
       /\ UNCHANGED exc

\* json_logger.log_user_request / log_model_response / log_error up to the first
\* bytes of the line
LogBegin(r) ==
  /\ pc[r] \in LogPoints
  /\ ~writing[r]
  /\ \E outcome \in WriteOutcomes :
       \E w \in {write_log(logEnabled, outcome)} :
         IF w.writes
         THEN /\ logFile' = Append(logFile, Chunk(r, "head"))
              /\ writing' = [writing EXCEPT ![r] = TRUE]
              /\ UNCHANGED <<pc, exc, response>>
         ELSE /\ LogReturns(r, w.raised)
              /\ UNCHANGED <<logFile, writing>>
  /\ UNCHANGED <<idleVars, uuidCount, req, calls, llm>>

\* the rest of the line and its newline
LogEnd(r) ==
  /\ pc[r] \in LogPoints
  /\ writing[r]
  /\ logFile' = Append(logFile, Chunk(r, "tail"))
  /\ writing' = [writing EXCEPT ![r] = FALSE]
  /\ LogReturns(r, FALSE)
  /\ UNCHANGED <<idleVars, uuidCount, req, calls, llm>>

\* LLMClient.generate up to the dispatch: the resolution and the credential test
Generate(r) ==
  /\ pc[r] = "generate"
  /\ \E rp \in {resolve_provider_and_model(settings, req[r].provider, req[r].model)} :
       /\ llm' = [llm EXCEPT ![r] = [NoLlm EXCEPT !.resolved = rp]]
       /\ IF CredentialNeeded(rp[1]) /\ rp[1] \notin keys
          THEN /\ exc' = [exc EXCEPT ![r] = MissingKeyMessage(rp[1])]
               /\ pc' = [pc EXCEPT ![r] = "log_error"]
          ELSE /\ pc' = [pc EXCEPT ![r] = "invoke"]
               /\ UNCHANGED exc
  /\ UNCHANGED <<idleVars, uuidCount, logFile, req, calls, writing, response>>

\* the provider collaborator called; on its return the usage is normalized
Invoke(r) ==
  /\ pc[r] = "invoke"
  /\ calls' = [calls EXCEPT ![r] = @ + 1]
  /\ \E o \in IF llm[r].resolved[1] \in RealProviders THEN ProviderOutcomes
              ELSE {[ok |-> TRUE, text |-> mock_text]} :
       IF o.ok
       THEN /\ llm' = [llm EXCEPT ![r] =
                         [resolved |-> @.resolved, returned |-> TRUE, text |-> o.text,
                          usage |-> [provider |-> @.resolved[1], model |-> @.resolved[2],
                                     input_tokens |-> IF @.resolved[1] \in RealProviders
                                                      THEN "7" ELSE "0",
                                     output_tokens |-> IF @.resolved[1] \in RealProviders
                                                       THEN "7" ELSE "0"]]]
            /\ pc' = [pc EXCEPT ![r] = "log_response"]
            /\ UNCHANGED exc
       ELSE /\ exc' = [exc EXCEPT ![r] = ProviderErrorMessage]
            /\ pc' = [pc EXCEPT ![r] = AfterProviderError]
            /\ UNCHANGED llm
  /\ UNCHANGED <<idleVars, uuidCount, logFile, req, writing, response>>

\* parse_cards_from_text / parse_followup_from_text and the response model
Parse(r) ==
  /\ pc[r] = "parse"
  /\ \E p \in {IF req[r].endpoint = "generate"
               THEN parse_cards_from_text(llm[r].text, uuidCount)
               ELSE parse_followup_from_text(llm[r].text, uuidCount)} :
       /\ uuidCount' = p.uuids
       /\ IF p.raised
          THEN /\ exc' = [exc EXCEPT ![r] = ParseErrorMessage]
               /\ pc' = [pc EXCEPT ![r] = "log_error"]
               /\ UNCHANGED response
          ELSE /\ response' = [response EXCEPT ![r] =
                                 [status |-> 200, error_type |-> NONE, message |-> NONE,
                                  cards |-> p.cards, usage |-> llm[r].usage,
                                  raw_text |-> llm[r].text]]
               /\ pc' = [pc EXCEPT ![r] = "done"]
               /\ UNCHANGED exc
  /\ UNCHANGED <<idleVars, logFile, req, calls, llm, writing>>

\* raise HTTPException(status_code=400, detail={error_type, message})
RaiseHttp(r) ==
  /\ pc[r] = "raise_http"
  /\ response' = [response EXCEPT ![r] =
                    [NoResponse EXCEPT !.status = 400,
                                       !.error_type = ErrorType(req[r].endpoint),
                                       !.message = exc[r]]]
  /\ pc' = [pc EXCEPT ![r] = "done"]
  /\ UNCHANGED <<idleVars, uuidCount, logFile, req, calls, llm, writing, exc>>

\* the response sent: nothing of the request is kept
Close(r) ==
  /\ pc[r] = "done"
  /\ pc' = [pc EXCEPT ![r] = "closed"]
  /\ req' = [req EXCEPT ![r] = NoRequest]
  /\ calls' = [calls EXCEPT ![r] = 0]
  /\ llm' = [llm EXCEPT ![r] = NoLlm]
  /\ exc' = [exc EXCEPT ![r] = NONE]
  /\ response' = [response EXCEPT ![r] = NoResponse]
  /\ UNCHANGED <<idleVars, uuidCount, logFile, writing>>

NextServe ==
  \E r \in Requests :
    \/ \E e \in Endpoints, b \in Bodies : RejectBody(r, e, b)
    \/ \E e \in Endpoints, b \in Bodies : StartHandler(r, e, b)
    \/ LogBegin(r)
    \/ LogEnd(r)
    \/ Generate(r)
    \/ Invoke(r)
    \/ Parse(r)
    \/ RaiseHttp(r)
    \/ Close(r)

SpecServe == InitServe /\ [][NextServe]_vars

(***************************************************************************)
(* The chat frontend in use                                                *)
(***************************************************************************)
InitFront ==
  /\ InitParserIdle
  /\ InitRouterIdle
  /\ InitServeIdle
  /\ InitFrontIdle

backVars == <<parserVars, routerVars, serveVars>>

\* a script run from the session state nav, msgs
Rerun(nav, msgs) ==
  \E m \in {main(nav, msgs)} :
    /\ card_nav' = m.nav
    /\ shown' = m.shown

\* process_prompt: the history is replaced, the navigation reset, then st.rerun()
process_prompt(prompt, outcome) ==
  /\ messages' = <<[role |-> "user", content |-> prompt, error |-> FALSE],
                   [role |-> "assistant", content |-> outcome.content,
                    error |-> outcome.error]>>
  /\ Rerun(reset_card_nav, messages')
  /\ info' = "none"
  /\ UNCHANGED backVars

\* set_card_index(delta), the on_click of Previous (-1) and Next (+1)
set_card_index(delta) ==
  /\ shown.controls
  /\ IF delta < 0 THEN ~shown.prev_disabled ELSE ~shown.next_disabled
  /\ Rerun([index |-> card_nav.index + delta, view_all |-> FALSE], messages)
  /\ info' = "none"
  /\ UNCHANGED <<messages, backVars>>

\* toggle_view_all, the on_click of View All / Hide All
toggle_view_all ==
  /\ shown.controls
  /\ Rerun([card_nav EXCEPT !.view_all = ~card_nav.view_all], messages)
  /\ info' = "none"
  /\ UNCHANGED <<messages, backVars>>

\* "Ask Follow-up" in render_followup_section: a warning for a blank question, else
\* the answer or the error of /v1/followup
ask_followup(outcome) ==
  /\ shown.followup
  /\ Rerun(card_nav, messages)
  /\ info' = outcome
  /\ UNCHANGED <<messages, backVars>>

NextFront ==
  \/ \E prompt \in Prompts, outcome \in GenerateOutcomes : process_prompt(prompt, outcome)
  \/ set_card_index(-1)
  \/ set_card_index(1)
  \/ toggle_view_all
  \/ \E outcome \in FollowupOutcomes : ask_followup(outcome)

SpecFront == InitFront /\ [][NextFront]_vars

Init == InitParse \/ InitResolve \/ InitServe \/ InitFront
Next == NextParse \/ NextResolve \/ NextServe \/ NextFront
Spec == Init /\ [][Next]_vars

(***************************************************************************)
(* Properties of the Response Normalizer (checked under SpecParse)         *)
(***************************************************************************)
\* an identifier drawn from uuid4
IsGenerated(id) == Len(id) = 2 /\ id[1] = "uuid"

\* c is t without its leading and trailing whitespace
IsStripOf(c, t) ==
  /\ c = <<>> \/ (c[1] # WS /\ c[Len(c)] # WS)
  /\ \E a \in 0..(Len(t) - Len(c)) :
       /\ SubSeq(t, a + 1, a + Len(c)) = c
       /\ \A k \in 1..a : t[k] = WS
       /\ \A k \in (a + Len(c) + 1)..Len(t) : t[k] = WS

\* d is a well-formed {"cards": [...]} object with at least one element, all objects
WellFormedCards(d) ==
  /\ d.t = "dict"
  /\ DictHas(d, K_CARDS)
  /\ DictGet(d, K_CARDS).t = "list"
  /\ Len(DictGet(d, K_CARDS).v) >= 1
  /\ \A i \in 1..Len(DictGet(d, K_CARDS).v) : DictGet(d, K_CARDS).v[i].t = "dict"

ElementsOf(d) == DictGet(d, K_CARDS).v

\* the text holds the document of its source, whole, alone or in a json fence
HoldsDocument == source.wrap \in {"plain", "fenced"}

\* the substring from the first opening brace to the last closing brace
BraceSubstring(t) ==
  IF Find(t, LB, 1) # 0 /\ RFind(t, RB) > Find(t, LB, 1)
  THEN SubSeq(t, Find(t, LB, 1), RFind(t, RB))
  ELSE <<>>

\* the one card of a fallback: generated id, the given title, kind "text", content
\* the trimmed raw text
IsFallback(r, title) ==
  /\ ~r.raised
  /\ Len(r.cards) = 1
  /\ IsGenerated(r.cards[1].id)
  /\ r.cards[1].title = title
  /\ r.cards[1].kind = <<"text">>
  /\ IsStripOf(r.cards[1].content, text)

\* field k of a card taken from the element when the key is present
TakenWhenPresent(elem, k, got, default) ==
  IF DictHas(elem, k) THEN got = Str(DictGet(elem, k)) ELSE got = default

\* field k of a card taken from the element when its value is truthy
TakenWhenTruthy(elem, k, got, default) ==
  IF Truthy(DictGet(elem, k)) THEN got = Str(DictGet(elem, k)) ELSE got = default

\* C1 (as claimed): neither parse operation ever raises; parse_cards_from_text returns
\* a non-empty sequence of Cards and parse_followup_from_text a single Card, also when
\* `cards` is no list of objects or `card` is null or no object.
C1_NeverRaises ==
  /\ op = "cards" => (~result.raised /\ Len(result.cards) >= 1)
  /\ op = "followup" => (~result.raised /\ Len(result.cards) = 1)

\* C2 (as claimed): for a text that contains a well-formed cards object of n >= 1
\* elements, parse_cards_from_text returns n Cards in order, card i taking each of id,
\* title, content, kind from element i when the key is present, and else a generated
\* id, "Card i", "" and "text".
C2_PresentFieldsTaken ==
  (op = "cards" /\ HoldsDocument /\ WellFormedCards(source.doc)) =>
    /\ ~result.raised
    /\ Len(result.cards) = Len(ElementsOf(source.doc))
    /\ \A i \in 1..Len(result.cards) :
         LET e == ElementsOf(source.doc)[i]
             c == result.cards[i]
         IN /\ IF DictHas(e, K_ID) THEN c.id = Str(DictGet(e, K_ID))
               ELSE IsGenerated(c.id)
            /\ TakenWhenPresent(e, K_TITLE, c.title, <<"Card", WS, IntSym[i]>>)
            /\ TakenWhenPresent(e, K_CONTENT, c.content, <<>>)
            /\ TakenWhenPresent(e, K_KIND, c.kind, <<"text">>)

\* the object the two extraction stages read: the substring from the first opening
\* brace to the last closing brace or, when that is no JSON, the content of the
\* first json fenced block up to the next triple backtick
ExtractionReads(t, j) ==
  \/ BraceSubstring(t) = j
  \/ /\ brace_stage(t).t = "null"
     /\ FenceSearch(t).found
     /\ FenceSearch(t).group = j

\* C2 (amended): for a text in which a well-formed cards object of n >= 1 elements,
\* all objects, is the substring from the first opening brace to the last closing
\* brace or, when that substring is no JSON, the content of the first json fenced
\* block up to the next triple backtick, parse_cards_from_text returns n Cards in
\* order, card i taking the string form of id, title, content, kind from element i
\* when the value is truthy, and else a generated id (no two alike), "Card i", ""
\* and "text".
C2_TruthyFieldsTaken ==
  (op = "cards" /\ HoldsDocument /\ WellFormedCards(source.doc)
     /\ ExtractionReads(text, Dumps(source.doc))) =>
    /\ ~result.raised
    /\ Len(result.cards) = Len(ElementsOf(source.doc))
    /\ \A i \in 1..Len(result.cards) :
         LET e == ElementsOf(source.doc)[i]
             c == result.cards[i]
         IN /\ IF Truthy(DictGet(e, K_ID)) THEN c.id = Str(DictGet(e, K_ID))
               ELSE IsGenerated(c.id)
            /\ TakenWhenTruthy(e, K_TITLE, c.title, <<"Card", WS, IntSym[i]>>)
            /\ TakenWhenTruthy(e, K_CONTENT, c.content, <<>>)
            /\ TakenWhenTruthy(e, K_KIND, c.kind, <<"text">>)
    /\ \A i, j \in 1..Len(result.cards) :
         (i # j /\ IsGenerated(result.cards[i].id)) =>
           result.cards[i].id # result.cards[j].id

\* C2 witness: a fenced two-element object between prose with braces; the second
\* element has no truthy title and becomes "Card 2", the first keeps its own id
C2_Witness ==
  /\ op = "cards"
  /\ source.wrap = "fenced"
  /\ source.prose[1] = <<"A", WS, LB, "B", RB, WS>>
  /\ WellFormedCards(source.doc)
  /\ ExtractionReads(text, Dumps(source.doc))
  /\ Len(result.cards) = 2
  /\ result.cards[1].id = <<"A">>
  /\ result.cards[2].title = <<"Card", WS, "2">>
  /\ IsGenerated(result.cards[2].id)

\* C3: when neither the brace substring nor a json fenced block parses,
\* parse_cards_from_text returns exactly one Card: generated non-empty id, title
\* "Response", kind "text", content the raw text without leading and trailing
\* whitespace.
C3_FallbackWhenNoJson ==
  (op = "cards" /\ brace_stage(text).t = "null" /\ fence_stage(text).t = "null") =>
    (IsFallback(result, <<"Response">>) /\ result.cards[1].id # <<>>)

\* C3 witness: an unparseable text with a brace in it and whitespace at both ends
C3_Witness ==
  /\ op = "cards"
  /\ brace_stage(text).t = "null"
  /\ fence_stage(text).t = "null"
  /\ Find(text, LB, 1) # 0
  /\ text[1] = WS
  /\ text[Len(text)] = WS
  /\ Len(result.cards) = 1
  /\ result.cards[1].title = <<"Response">>
  /\ Len(result.cards[1].content) = Len(text) - 3

\* C4: when the extracted JSON object has `cards` equal to an empty array,
\* parse_cards_from_text returns the single fallback Card ("Response", the trimmed
\* raw text), never an empty sequence.
C4_EmptyCardsFallback ==
  (op = "cards" /\ extract_json_block(text).t = "dict"
     /\ DictHas(extract_json_block(text), K_CARDS)
     /\ DictGet(extract_json_block(text), K_CARDS).t = "list"
     /\ Len(DictGet(extract_json_block(text), K_CARDS).v) = 0) =>
    IsFallback(result, <<"Response">>)

\* C4 witness: the text {"cards": []} itself, parsed
C4_Witness ==
  /\ op = "cards"
  /\ text = <<LB, Q, "cards", Q, COLON, WS, LS, RS, RB>>
  /\ Len(result.cards) = 1
  /\ result.cards[1].content = text

\* same count, order, titles, contents and kinds
SameCards(r1, r2) ==
  /\ r1.raised = r2.raised
  /\ Len(r1.cards) = Len(r2.cards)
  /\ \A i \in 1..Len(r1.cards) :
       /\ r1.cards[i].title = r2.cards[i].title
       /\ r1.cards[i].content = r2.cards[i].content
       /\ r1.cards[i].kind = r2.cards[i].kind

\* C5 (as claimed): a well-formed cards object J in a json fenced block with any prose
\* around it parses to the same Cards (count, order, titles, contents, kinds) as J alone.
C5_FencedSameAsAlone ==
  (op = "cards" /\ source.wrap = "fenced" /\ WellFormedCards(source.doc)) =>
    SameCards(result, parse_cards_from_text(Dumps(source.doc), 0))

\* C6 (as claimed): parse_followup_from_text coerces a `card` object with the defaults
\* for missing fields, and returns the fallback Card ("Clarification", the trimmed raw
\* text) whenever no `card` object can be extracted.
C6_FollowupCardOrFallback ==
  op = "followup" =>
    IF /\ extract_json_block(text).t = "dict"
       /\ DictHas(extract_json_block(text), K_CARD)
       /\ DictGet(extract_json_block(text), K_CARD).t = "dict"
    THEN LET e == DictGet(extract_json_block(text), K_CARD)
             c == result.cards[1]
         IN /\ ~result.raised
            /\ Len(result.cards) = 1
            /\ IF Truthy(DictGet(e, K_ID)) THEN c.id = Str(DictGet(e, K_ID))
               ELSE IsGenerated(c.id)
            /\ \/ TakenWhenTruthy(e, K_TITLE, c.title, <<"Clarification">>)
               \/ TakenWhenTruthy(e, K_TITLE, c.title, <<"Card", WS, "1">>)
            /\ TakenWhenTruthy(e, K_CONTENT, c.content, <<>>)
            /\ TakenWhenTruthy(e, K_KIND, c.kind, <<"text">>)
    ELSE IsFallback(result, <<"Clarification">>)

(***************************************************************************)
(* Properties of the Provider Router (checked under SpecResolve)           *)
(***************************************************************************)
\* a resolution has returned
Resolved == resolved # <<NONE, NONE>>

\* the configured model list of a provider, empty when it has none
ModelsOf(name) == ProviderModels(settings, name).models

\* C7 (as claimed): a requested provider that is no key of the configured mapping
\* (case-insensitively) or whose list is empty, with no requested model, resolves to
\* ("mock", first model of the configured mock list).
C7_UnknownProviderToMock ==
  (Resolved /\ TruthyStr(request[1]) /\ request[2] = NONE
     /\ ModelsOf(Lower(request[1])) = <<>>) =>
    (ModelsOf("mock") # <<>> /\ resolved = <<"mock", ModelsOf("mock")[1]>>)

\* C8 (as claimed): resolve(None, None) returns the configured default provider and the
\* first model of its list.
C8_DefaultAndItsFirstModel ==
  (Resolved /\ request = <<NONE, NONE>>) =>
    /\ ModelsOf(settings.default_provider) # <<>>
    /\ resolved = <<settings.default_provider, ModelsOf(settings.default_provider)[1]>>

\* C8 (amended): resolve(None, None) returns the configured default provider and the
\* first model of its list when that list is non-empty; when it is empty it returns
\* "mock" with the first model of the mock list, or with "mock-model" when the mock
\* list is empty too.
C8_DefaultOrMock ==
  (Resolved /\ request = <<NONE, NONE>>) =>
    IF ModelsOf(settings.default_provider) # <<>>
    THEN resolved = <<settings.default_provider, ModelsOf(settings.default_provider)[1]>>
    ELSE resolved = <<"mock", IF ModelsOf("mock") # <<>> THEN ModelsOf("mock")[1]
                              ELSE "mock-model">>

\* C8 witness: the default provider openai, written "OpenAI" in the file, resolved
C8_Witness ==
  /\ Resolved
  /\ request = <<NONE, NONE>>
  /\ rawCfg.default_provider = "OpenAI"
  /\ settings.default_provider = "openai"
  /\ resolved = <<"openai", "m1">>

\* C9 (as claimed): a supplied requested model is returned unchanged, in the list or
\* not, and for a configured provider with a non-empty list the returned provider is
\* the requested one.
C9_SuppliedModelVerbatim ==
  (Resolved /\ request[2] # NONE) =>
    /\ resolved[2] = request[2]
    /\ (request[1] # NONE /\ ModelsOf(Lower(request[1])) # <<>>) =>
         resolved[1] = request[1]

\* C9 (amended): a supplied non-empty requested model is returned unchanged, in the
\* list or not (an empty string counts as no model), and for a requested provider
\* whose lower-cased name is configured with a non-empty list the returned provider is
\* that lower-cased name.
C9_NonEmptyModelVerbatim ==
  (Resolved /\ request[2] # NONE /\ request[2] # "") =>
    /\ resolved[2] = request[2]
    /\ (TruthyStr(request[1]) /\ ModelsOf(Lower(request[1])) # <<>>) =>
         resolved[1] = Lower(request[1])

\* C9 witness: ("openai", "gpt-custom") resolved under a list without "gpt-custom"
C9_Witness ==
  /\ request = <<"openai", "gpt-custom">>
  /\ ModelsOf("openai") = <<"m1", "m2">>
  /\ resolved = <<"openai", "gpt-custom">>

\* C10 (as claimed): the normalized configuration always holds a "mock" entry with at
\* least one model, and every resolved provider is a key of the configured mapping
\* whose model list is non-empty.
C10_ResolvedProviderConfigured ==
  /\ ModelsOf("mock") # <<>>
  /\ Resolved => ModelsOf(resolved[1]) # <<>>

\* the provider a request chooses: the requested one or else the configured default,
\* lower-cased
RequestChooses ==
  Lower(IF request[1] # NONE /\ request[1] # "" THEN request[1]
        ELSE settings.default_provider)

\* the chosen provider of the request is unconfigured or has an empty model list
Unresolvable == ModelsOf(RequestChooses) = <<>>

\* a resolution returned a pair of names
ReturnedPair ==
  /\ resolved[1] \in {"openai", "gemini", "deepseek", "mock"}
  /\ resolved[2] # NONE
  /\ resolved[2] # ""

\* C11 (as claimed): a request whose chosen provider is unconfigured or has an empty
\* model list, with or without a requested model, resolves to "mock" paired with a
\* model of the mock list.
C11_UnresolvableToMockPair ==
  (Resolved /\ Unresolvable) =>
    /\ resolved[1] = "mock"
    /\ \E i \in 1..Len(ModelsOf("mock")) : resolved[2] = ModelsOf("mock")[i]

\* C11 (amended): resolve_provider_and_model never fails and does not change the
\* configuration, and a request whose chosen provider is unconfigured or has an empty
\* model list resolves to provider "mock", paired with the requested model when a
\* non-empty one is supplied and else with the first model of the mock list, or with
\* "mock-model" when the mock list is empty.
C11_UnresolvableToMock ==
  /\ [](Resolved =>
          /\ ReturnedPair
          /\ Unresolvable =>
               /\ resolved[1] = "mock"
               /\ resolved[2] = IF request[2] # NONE /\ request[2] # "" THEN request[2]
                                ELSE IF ModelsOf("mock") # <<>> THEN ModelsOf("mock")[1]
                                ELSE "mock-model")
  /\ [][settings' = settings /\ rawCfg' = rawCfg]_vars

\* C11 witness: ("deepseek", "gpt-custom") resolved where deepseek is not configured
C11_Witness ==
  /\ request = <<"deepseek", "gpt-custom">>
  /\ ~ProviderModels(settings, "deepseek").found
  /\ ModelsOf("mock") = <<"mock-model">>
  /\ resolved = <<"mock", "gpt-custom">>

\* C14 (as claimed): in every sequence of Cards returned by parse_cards_from_text the
\* card ids are pairwise distinct, also when the JSON gives two elements the same id.
C14_DistinctIds ==
  (op = "cards" /\ ~result.raised) =>
    \A i, j \in 1..Len(result.cards) :
      i # j => result.cards[i].id # result.cards[j].id

\* the first-brace-to-last-brace substring yields nothing usable under the key: it
\* does not parse, it parses to an object without the key, or `cards` is an empty array
BraceUnusable(t, key) ==
  \/ brace_stage(t).t = "null"
  \/ brace_stage(t).t = "dict" /\ ~DictHas(brace_stage(t), key)
  \/ /\ brace_stage(t).t = "dict"
     /\ key = K_CARDS
     /\ DictGet(brace_stage(t), key).t = "list"
     /\ Len(DictGet(brace_stage(t), key).v) = 0

\* the json fenced block holds a non-empty `cards` array of objects
FenceHasCards(t) ==
  /\ fence_stage(t).t = "dict"
  /\ WellFormedCards(fence_stage(t))

\* the json fenced block holds a `card` object
FenceHasCard(t) ==
  /\ fence_stage(t).t = "dict"
  /\ DictHas(fence_stage(t), K_CARD)
  /\ DictGet(fence_stage(t), K_CARD).t = "dict"

\* the card c is element e coerced, with the title default d
CoercedFrom(c, e, d) ==
  /\ IF Truthy(DictGet(e, K_ID)) THEN c.id = Str(DictGet(e, K_ID)) ELSE IsGenerated(c.id)
  /\ TakenWhenTruthy(e, K_TITLE, c.title, d)
  /\ TakenWhenTruthy(e, K_CONTENT, c.content, <<>>)
  /\ TakenWhenTruthy(e, K_KIND, c.kind, <<"text">>)

\* C17: in both parse operations, whenever the first-brace-to-last-brace substring
\* yields no usable cards (it does not parse, it parses to an object without the
\* `cards` / `card` key, or `cards` is an empty array) and the json fenced block holds
\* a non-empty `cards` array (a `card` object), the cards of the fenced block are
\* returned and not the fallback Card.
C17_FenceAfterBrace ==
  /\ (op = "cards" /\ BraceUnusable(text, K_CARDS) /\ FenceHasCards(text)) =>
       /\ ~result.raised
       /\ Len(result.cards) = Len(ElementsOf(fence_stage(text)))
       /\ \A i \in 1..Len(result.cards) :
            CoercedFrom(result.cards[i], ElementsOf(fence_stage(text))[i],
                        <<"Card", WS, IntSym[i]>>)
  /\ (op = "followup" /\ BraceUnusable(text, K_CARD) /\ FenceHasCard(text)) =>
       /\ ~result.raised
       /\ Len(result.cards) = 1
       /\ CoercedFrom(result.cards[1], DictGet(fence_stage(text), K_CARD),
                      <<"Clarification">>)

\* C17 witness: braces in the prose make the substring unparseable, and the card of
\* the fenced block is returned
C17_Witness ==
  /\ op = "cards"
  /\ source.wrap = "fenced"
  /\ source.prose[1] = <<LB, WS>>
  /\ BraceUnusable(text, K_CARDS)
  /\ FenceHasCards(text)
  /\ Len(result.cards) = 1
  /\ result.cards[1].title = <<"A">>
  /\ result.cards[1].content = <<"B">>

\* the four fields of a card element
KnownKeys == {K_ID, K_TITLE, K_CONTENT, K_KIND}

\* the non-string values that Python takes for false
FalsyNonStrings == {NumV(<<"0">>), BoolV(FALSE), ListV(<<>>), DictV(<<>>)}

\* element e has a number, boolean, list or object under key k
NonString(e, k) == DictHas(e, k) /\ DictGet(e, k).t \in {"num", "bool", "list", "dict"}

\* field k of card c
FieldOf(c, k) ==
  CASE k = K_ID -> c.id
    [] k = K_TITLE -> c.title
    [] k = K_CONTENT -> c.content
    [] OTHER -> c.kind

\* field k of card c is the default, title being the default title
IsDefault(c, k, title) ==
  CASE k = K_ID -> IsGenerated(c.id)
    [] k = K_TITLE -> c.title = title
    [] k = K_CONTENT -> c.content = <<>>
    [] OTHER -> c.kind = <<"text">>

\* the elements the operation coerces and the default titles they get
CoercedElements ==
  IF op = "cards" THEN ElementsOf(source.doc) ELSE <<DictGet(source.doc, K_CARD)>>

TitleDefault(i) == IF op = "cards" THEN <<"Card", WS, IntSym[i]>> ELSE <<"Clarification">>

\* the text holds, where the extraction reads it, an object whose `cards` is a
\* non-empty array of objects (parse_cards_from_text) or whose `card` is an object
\* (parse_followup_from_text), and the operation has been applied to it
CoercesDocument ==
  /\ HoldsDocument
  /\ source.doc.t = "dict"
  /\ ExtractionReads(text, Dumps(source.doc))
  /\ \/ op = "cards" /\ WellFormedCards(source.doc)
     \/ /\ op = "followup"
        /\ DictHas(source.doc, K_CARD)
        /\ DictGet(source.doc, K_CARD).t = "dict"

\* an element without its unknown keys
StripElement(e) ==
  IF e.t = "dict" THEN DictV(SelectSeq(e.v, LAMBDA p : p[1] \in KnownKeys)) ELSE e

\* a document without the unknown keys of the enclosing object and of its elements
StripDocument(d) ==
  LET kept == SelectSeq(d.v, LAMBDA p : p[1] \in {K_CARDS, K_CARD})
  IN DictV([i \in 1..Len(kept) |->
       IF kept[i][2].t = "list"
       THEN <<kept[i][1],
              ListV([j \in 1..Len(kept[i][2].v) |-> StripElement(kept[i][2].v[j])])>>
       ELSE <<kept[i][1], StripElement(kept[i][2])>>])

\* what the operation returns for the document without its unknown keys
ResultWithoutUnknown ==
  IF op = "cards"
  THEN parse_cards_from_text(Dumps(StripDocument(source.doc)), 0)
  ELSE parse_followup_from_text(Dumps(StripDocument(source.doc)), 0)

\* C18 (as claimed): for every card element and each of id, title, content and kind,
\* a present non-string value (number, boolean, list, object, including 0, false and
\* empty containers) appears in the Card as the string form of the value, and unknown
\* extra keys of the element or of the enclosing object do not change the result.
C18_NonStringsAsStrings ==
  CoercesDocument =>
    /\ ~result.raised
    /\ Len(result.cards) = Len(CoercedElements)
    /\ \A i \in 1..Len(result.cards) : \A k \in KnownKeys :
         NonString(CoercedElements[i], k) =>
           FieldOf(result.cards[i], k) = Str(DictGet(CoercedElements[i], k))
    /\ SameCards(result, ResultWithoutUnknown)

\* C18 (amended): for every card element and each of id, title, content and kind, a
\* present non-string value that is truthy appears in the Card as its Python string
\* form (7 as "7", true as "True", ["A"] as "['A']", {"x": true} as "{'x': True}"),
\* one that is falsy (0, false, an empty list or object) is replaced by the field's
\* default, and unknown extra keys of the element or of the enclosing object do not
\* change the result.
C18_TruthyNonStringsAsStrings ==
  CoercesDocument =>
    /\ ~result.raised
    /\ Len(result.cards) = Len(CoercedElements)
    /\ \A i \in 1..Len(result.cards) : \A k \in KnownKeys :
         NonString(CoercedElements[i], k) =>
           IF DictGet(CoercedElements[i], k) \in FalsyNonStrings
           THEN IsDefault(result.cards[i], k, TitleDefault(i))
           ELSE FieldOf(result.cards[i], k) = Str(DictGet(CoercedElements[i], k))
    /\ \A i \in 1..Len(result.cards) :
         CoercedElements[i] = E_NonStr =>
           /\ result.cards[i].id = <<"7">>
           /\ result.cards[i].title = <<LS, SQ, "A", SQ, RS>>
           /\ result.cards[i].content = <<LB, SQ, "x", SQ, COLON, WS, "True", RB>>
           /\ result.cards[i].kind = <<"True">>
    /\ SameCards(result, ResultWithoutUnknown)

\* C18 witness: an element of numbers, containers and an unknown key followed by an
\* element of falsy values; the first is shown as strings, the second gets defaults
C18_Witness ==
  /\ op = "cards"
  /\ CoercesDocument
  /\ Len(CoercedElements) = 2
  /\ CoercedElements[1] = E_NonStr
  /\ CoercedElements[2] = E_Falsy
  /\ result.cards[1].title = <<LS, SQ, "A", SQ, RS>>
  /\ result.cards[2].title = <<"Card", WS, "2">>
  /\ result.cards[2].content = <<>>
  /\ IsGenerated(result.cards[2].id)

(***************************************************************************)
(* Properties of the request handlers (checked under SpecServe)            *)
(***************************************************************************)
\* the handler of r has answered and the response is not yet sent away
Answered(r) == pc[r] = "done"

\* C12: for every request the provider collaborator is invoked at most once, and when
\* that invocation fails LLMClient.generate returns neither text nor usage and the
\* response of the request carries no cards and no usage.
C12_NoRetryNoPartialResult ==
  \A r \in Requests :
    /\ calls[r] <= 1
    /\ exc[r] = ProviderErrorMessage =>
         /\ ~llm[r].returned
         /\ llm[r].text = <<>>
         /\ llm[r].usage = NoUsage
         /\ Answered(r) =>
              /\ response[r].status # 200
              /\ response[r].cards = <<>>
              /\ response[r].usage = NoUsage
              /\ response[r].raw_text = <<>>

\* C12 witness: a request answered after its one provider call failed
C12_Witness ==
  \E r \in Requests :
    /\ Answered(r)
    /\ calls[r] = 1
    /\ exc[r] = ProviderErrorMessage
    /\ llm[r].resolved[1] = "gemini"
    /\ response[r].status = 400

\* C13 (as claimed): every failure of a request ends it with HTTP status 400 and a
\* typed body: error_type "generation_error" for the generate endpoint and
\* "followup_error" for the follow-up endpoint, message the stringified error; also
\* for a body that violates a field constraint.
C13_EveryFailureIs400 ==
  \A r \in Requests :
    (Answered(r) /\ response[r].status # 200) =>
      /\ response[r].status = 400
      /\ response[r].error_type = ErrorType(req[r].endpoint)
      /\ response[r].message # NONE
\* the chunk at position k of the log file belongs to a line written whole: a first
\* part is followed at once by the rest of the same entry (or is the last chunk, its
\* write in progress), and a rest follows the first part of the same entry
WholeLineAt(k) ==
  /\ logFile[k].part = "head" =>
       \/ k = Len(logFile) /\ \E r \in Requests : writing[r]
       \/ k < Len(logFile) /\ logFile[k + 1] = [logFile[k] EXCEPT !.part = "tail"]
  /\ logFile[k].part = "tail" =>
       k > 1 /\ logFile[k - 1] = [logFile[k] EXCEPT !.part = "head"]

\* C15: whatever the order in which the requests are handled, every entry appended to
\* the log file is one complete line: the bytes of two entries are never interleaved,
\* the writes of one process being serialized.
C15_LogLinesWhole == \A k \in 1..Len(logFile) : WholeLineAt(k)

\* C15 witness: the entries of two requests in the log file, the second request still
\* being handled
C15_Witness ==
  /\ Len(logFile) >= 4
  /\ logFile[1].user_id # logFile[Len(logFile)].user_id
  /\ logFile[Len(logFile)].part = "tail"
  /\ \E r \in Requests : pc[r] = "parse"
\* the parse the handler of r applies to the text of its provider
ParseOf(r) ==
  IF req[r].endpoint = "generate" THEN parse_cards_from_text(llm[r].text, 0)
  ELSE parse_followup_from_text(llm[r].text, 0)

\* C16: a failure of the log sink never leaves log_user_request, log_model_response or
\* log_error, so the status and body of every response are what the provider call and
\* the parse alone determine, whether each log write succeeds or fails; and with
\* logging disabled nothing is written.
C16_LogFailuresStayInside ==
  /\ ~logEnabled => logFile = <<>>
  /\ \A r \in Requests :
       /\ exc[r] # LogErrorMessage
       /\ (Answered(r) /\ req[r].fault = NONE) =>
            IF llm[r].returned /\ ~ParseOf(r).raised
            THEN /\ response[r].status = 200
                 /\ response[r].raw_text = llm[r].text
                 /\ response[r].usage = llm[r].usage
                 /\ Len(response[r].cards) = Len(ParseOf(r).cards)
                 /\ \A i \in 1..Len(response[r].cards) :
                      /\ response[r].cards[i].title = ParseOf(r).cards[i].title
                      /\ response[r].cards[i].content = ParseOf(r).cards[i].content
            ELSE /\ response[r].status = 400
                 /\ response[r].error_type = ErrorType(req[r].endpoint)
                 /\ response[r].message =
                      IF llm[r].returned THEN ParseErrorMessage
                      ELSE IF calls[r] = 1 THEN ProviderErrorMessage
                      ELSE MissingKeyMessage(llm[r].resolved[1])

\* C16 witness: logging enabled, every log write of the request failed, and the request
\* is answered with its cards
C16_Witness ==
  /\ logEnabled
  /\ logFile = <<>>
  /\ \E r \in Requests :
       /\ Answered(r)
       /\ llm[r].resolved[1] = "openai"
       /\ response[r].status = 200
       /\ Len(response[r].cards) = 1

\* LLMClient.generate has resolved the provider of request r
HasResolved(r) == llm[r].resolved # <<NONE, NONE>>

\* C19: when the resolved provider is openai, gemini or deepseek and its API
\* credential is not set, LLMClient.generate fails before the provider collaborator
\* is invoked, with the message that tells the user to set the key or switch to the
\* mock provider; when the resolved provider is mock no credential is checked and
\* the call succeeds.
C19_MissingCredentialFailsFirst ==
  \A r \in Requests :
    HasResolved(r) =>
      /\ (llm[r].resolved[1] \in {"openai", "gemini", "deepseek"}
            /\ llm[r].resolved[1] \notin keys) =>
           /\ calls[r] = 0
           /\ ~llm[r].returned
           /\ pc[r] # "invoke"
           /\ exc[r] = MissingKeyMessage(llm[r].resolved[1])
           /\ Answered(r) =>
                /\ response[r].status = 400
                /\ response[r].message = MissingKeyMessage(llm[r].resolved[1])
      /\ llm[r].resolved[1] = "mock" =>
           /\ exc[r] = NONE
           /\ pc[r] # "invoke" => (calls[r] = 1 /\ llm[r].returned)
           /\ Answered(r) => response[r].status = 200

\* C19 witness: no key is set; a request for deepseek is answered 400 without a call
\* of the collaborator
C19_Witness ==
  \E r \in Requests :
    /\ keys = {}
    /\ Answered(r)
    /\ llm[r].resolved[1] = "deepseek"
    /\ calls[r] = 0
    /\ response[r].status = 400
    /\ response[r].message =
         "DEEPSEEK_API_KEY is not set. Please add it to your .env or switch provider to 'mock'."

\* C20: a follow-up request whose provider resolves to mock is answered with the
\* fallback Card (generated id, title "Clarification", kind "text", content the raw
\* mock text, which is the serialized `cards` object) and never with a card parsed
\* from a `card` object; a generate request resolved to mock is answered with exactly
\* the two cards "overview" and "step-1", in that order.
C20_MockFollowupIsFallback ==
  \A r \in Requests :
    (Answered(r) /\ HasResolved(r) /\ llm[r].resolved[1] = "mock") =>
      /\ response[r].status = 200
      /\ req[r].endpoint = "followup" =>
           /\ Len(response[r].cards) = 1
           /\ IsGenerated(response[r].cards[1].id)
           /\ response[r].cards[1].title = <<"Clarification">>
           /\ response[r].cards[1].kind = <<"text">>
           /\ response[r].cards[1].content = response[r].raw_text
           /\ SubSeq(response[r].raw_text, 1, 4) = <<LB, Q, "cards", Q>>
           /\ parse_cards_from_text(response[r].raw_text, 0).cards[1].id = <<"overview">>
      /\ req[r].endpoint = "generate" =>
           /\ Len(response[r].cards) = 2
           /\ response[r].cards[1].id = <<"overview">>
           /\ response[r].cards[2].id = <<"step-1">>

\* C20 witness: a follow-up with provider mock answered with the fallback Card
C20_Witness ==
  \E r \in Requests :
    /\ Answered(r)
    /\ req[r].endpoint = "followup"
    /\ req[r].provider = "mock"
    /\ llm[r].resolved[1] = "mock"
    /\ calls[r] = 1
    /\ response[r].status = 200
    /\ response[r].cards[1].title = <<"Clarification">>
    /\ Len(response[r].cards[1].content) > 4

\* the events of the complete lines of the log file that carry the user_id of
\* request r, in the order of the file
EventsOf(r) ==
  LET lines == SelectSeq(logFile, LAMBDA c : c.user_id = req[r].user_id /\ c.part = "tail")
  IN [k \in 1..Len(lines) |-> lines[k].event]

CountOf(evs, e) == Cardinality({k \in 1..Len(evs) : evs[k] = e})

\* the log calls the handler of r has made and that have returned
LogCallsReturned(r) ==
  (IF pc[r] # "log_request" THEN 1 ELSE 0)
  + (IF llm[r].returned /\ pc[r] # "log_response" THEN 1 ELSE 0)
  + (IF pc[r] = "raise_http" \/ (pc[r] = "done" /\ response[r].status = 400)
     THEN 1 ELSE 0)

\* the handler of r is running or has answered, and every log call it made wrote
\* its line
LogsEveryCall(r) ==
  /\ req[r].user_id # <<>>
  /\ logEnabled
  /\ Len(EventsOf(r)) = LogCallsReturned(r)

\* C21 (as claimed): with a log that takes every line, the events carrying the
\* user_id of a request are, in order: exactly one "request" event written before the
\* provider is called, then either one "response" event (only after the provider call
\* returned) or one "error" event, never both; a request answered 400 has written
\* exactly one "error" event and a request answered with success none.
C21_RequestThenResponseOrError ==
  \A r \in Requests :
    LogsEveryCall(r) =>
      /\ pc[r] # "log_request" =>
           (EventsOf(r)[1] = "request" /\ CountOf(EventsOf(r), "request") = 1)
      /\ pc[r] = "invoke" => EventsOf(r) = <<"request">>
      /\ calls[r] >= 1 => EventsOf(r)[1] = "request"
      /\ CountOf(EventsOf(r), "response") <= 1
      /\ CountOf(EventsOf(r), "error") <= 1
      /\ ~(CountOf(EventsOf(r), "response") = 1 /\ CountOf(EventsOf(r), "error") = 1)
      /\ CountOf(EventsOf(r), "response") = 1 => llm[r].returned
      /\ (Answered(r) /\ response[r].status = 400) => CountOf(EventsOf(r), "error") = 1
      /\ (Answered(r) /\ response[r].status = 200) => CountOf(EventsOf(r), "error") = 0

(***************************************************************************)
(* Properties of the chat frontend (checked under SpecFront)               *)
(***************************************************************************)
\* the cards of the current response; none before the first answer and after an error
CurrentCards ==
  IF Len(messages) = 2 /\ ~messages[2].error THEN messages[2].content.cards ELSE <<>>

\* C22: after any sequence of prompt submissions and clicks on Previous, Next and
\* View All / Hide All, the card navigation index is at least 0 and at most the number
\* of cards of the current response minus one; Previous and Next each move the index
\* by exactly one and clear view_all, View All only toggles view_all and leaves the
\* index unchanged, and every prompt submission resets the state to index 0 with
\* view_all false.
C22_IndexWithinCards ==
  /\ [](/\ card_nav.index >= 0
        /\ CurrentCards # <<>> => card_nav.index <= Len(CurrentCards) - 1
        /\ CurrentCards = <<>> => card_nav.index = 0)
  /\ [][/\ set_card_index(-1) =>
             (card_nav'.index = card_nav.index - 1 /\ ~card_nav'.view_all)
        /\ set_card_index(1) =>
             (card_nav'.index = card_nav.index + 1 /\ ~card_nav'.view_all)
        /\ toggle_view_all =>
             (card_nav'.index = card_nav.index
              /\ card_nav'.view_all = ~card_nav.view_all)
        /\ (\E prompt \in Prompts, outcome \in GenerateOutcomes :
              process_prompt(prompt, outcome)) =>
             (card_nav'.index = 0 /\ ~card_nav'.view_all)]_vars

\* C22 witness: the last of three cards reached with Next, all steps then shown with
\* View All: Next is disabled, Previous is not
C22_Witness ==
  /\ Len(CurrentCards) = 3
  /\ card_nav.index = 2
  /\ card_nav.view_all
  /\ shown.controls
  /\ shown.hide_all
  /\ shown.next_disabled
  /\ ~shown.prev_disabled

====
